---- MODULE Spec2Model ----
(***************************************************************************)
(* Debenture contract (debenture/src/lib.rs): a key-value contract store   *)
(* holding the five instrument fields, the four exported operations        *)
(* issue / maturity / par_value / coupon_payment, and the coupon formula.  *)
(*                                                                         *)
(* BigInt values are unbounded integers; BigInt division truncates toward  *)
(* zero.  The frequency code is a u32 that issue stores unchanged and that *)
(* get_coupon_payment converts with From<u32>, which panics on any value   *)
(* outside 0..5.  A panicking invocation returns no value and writes       *)
(* nothing.                                                                *)
(***************************************************************************)
EXTENDS Integers, FiniteSets, Sequences, TLC

(* ------------------------------ bounds --------------------------------- *)

\* timestamps passed to coupon_payment range over -1..MaxTime
MaxTime == 1

\* non-default holder identities are 1..NumHolders (0 is the all-zero id)
NumHolders == 1

Times == (0 - 1)..MaxTime

\* argument values handed to issue
Maturities == {0 - 1, 0}
Rates == {0 - 7, 0, 750}
Pars == {0 - 150, 0, 100000}
Codes == {0, 1, 2, 3, 4, 5, 12, 99}
Holders == 1..NumHolders

(* ------------------------------ DataKey -------------------------------- *)

DataKey_Maturity == 0
DataKey_CouponRate == 1
DataKey_ParValue == 2
DataKey_DebentureHolder == 3
DataKey_CouponPaymentFrequency == 4

(* ----------------------- CouponPaymentFrequency ------------------------ *)

Annually == 0
Biannually == 1
Quarterly == 2
Monthly == 3
Weekly == 4
Daily == 5

\* the value From<u32> yields when it panics
InvalidFrequency == 0 - 1

\* From<u32> that falls back to Annually instead of panicking
From_u32_defaulting(value) ==
    IF value \in {Annually, Biannually, Quarterly, Monthly, Weekly, Daily}
    THEN value
    ELSE Annually

\* impl From<u32> for CouponPaymentFrequency
From_u32(value) ==
    CASE value = 0 -> Annually
      [] value = 1 -> Biannually
      [] value = 2 -> Quarterly
      [] value = 3 -> Monthly
      [] value = 4 -> Weekly
      [] value = 5 -> Daily
      [] OTHER -> InvalidFrequency

\* into_big_int with the Weekly and Monthly arms exchanged
into_big_int_swapped(f) ==
    CASE f = Annually -> 1
      [] f = Biannually -> 2
      [] f = Quarterly -> 4
      [] f = Monthly -> 52
      [] f = Weekly -> 12
      [] f = Daily -> 365

\* CouponPaymentFrequency::into_big_int
into_big_int(f) ==
    CASE f = Annually -> 1
      [] f = Biannually -> 2
      [] f = Quarterly -> 4
      [] f = Monthly -> 12
      [] f = Weekly -> 52
      [] f = Daily -> 365

(* ------------------------------ BigInt --------------------------------- *)

Abs(a) == IF a < 0 THEN 0 - a ELSE a

\* BigInt `/`: the quotient truncated toward zero
TruncDiv(a, b) ==
    LET q == Abs(a) \div Abs(b)
    IN  IF (a < 0) # (b < 0) THEN 0 - q ELSE q

(* --------------------------- contract data ----------------------------- *)

\* e.contract_data().get(key).unwrap_or(Ok(default)).unwrap()
get(s, key, default) == IF key \in DOMAIN s THEN s[key] ELSE default

\* e.contract_data().set(key, value)
set(s, key, value) == [k \in (DOMAIN s) \cup {key} |-> IF k = key THEN value ELSE s[k]]

\* get_maturity reading the par value's key
get_maturity_wrong_key(s) == get(s, DataKey_ParValue, 0)

get_maturity(s) == get(s, DataKey_Maturity, 0)

get_par_value(s) == get(s, DataKey_ParValue, 0)

get_coupon_rate(s) == get(s, DataKey_CouponRate, 0)

\* get_coupon_frequency whose missing-key default is not a variant
get_coupon_frequency_bad_default(s) == get(s, DataKey_CouponPaymentFrequency, 6)

get_coupon_frequency(s) == get(s, DataKey_CouponPaymentFrequency, 0)

get_debenture_holder(s) == get(s, DataKey_DebentureHolder, 0)

(* ------------------------------ outcomes ------------------------------- *)

Ok(v) == [ok |-> TRUE, val |-> v]
Panic == [ok |-> FALSE, val |-> 0]

(* --------------------------- coupon payment ---------------------------- *)

\* get_coupon_payment multiplying before dividing by the frequency
get_coupon_payment_multiply_first(s, timestamp) ==
    LET maturity_ == get_maturity(s)
        par_value_ == get_par_value(s)
        coupon_rate_ == get_coupon_rate(s)
        frequency == From_u32(get_coupon_frequency(s))
    IN  IF frequency = InvalidFrequency THEN Panic
        ELSE IF timestamp > maturity_ THEN Ok(0)
        ELSE Ok(TruncDiv(TruncDiv(par_value_ * coupon_rate_, into_big_int(frequency)), 100))

\* get_coupon_payment converting basis points with a divisor of 10000
get_coupon_payment_basis_points(s, timestamp) ==
    LET maturity_ == get_maturity(s)
        par_value_ == get_par_value(s)
        coupon_rate_ == get_coupon_rate(s)
        frequency == From_u32(get_coupon_frequency(s))
    IN  IF frequency = InvalidFrequency THEN Panic
        ELSE IF timestamp > maturity_ THEN Ok(0)
        ELSE Ok(TruncDiv(par_value_ * TruncDiv(coupon_rate_, into_big_int(frequency)), 10000))

\* get_coupon_payment: the frequency is converted (and may panic) before the
\* maturity test
get_coupon_payment(s, timestamp) ==
    LET maturity_ == get_maturity(s)
        par_value_ == get_par_value(s)
        coupon_rate_ == get_coupon_rate(s)
        frequency == From_u32(get_coupon_frequency(s))
    IN  IF frequency = InvalidFrequency THEN Panic
        ELSE IF timestamp > maturity_ THEN Ok(0)
        ELSE Ok(TruncDiv(par_value_ * TruncDiv(coupon_rate_, into_big_int(frequency)), 100))

(* ------------------------------- state --------------------------------- *)

VARIABLES
    store,      \* contract data: a function from the keys that are set to their values
    call,       \* the latest invocation: its operation and arguments
    ret,        \* what the latest invocation returned, or Panic
    issued,     \* history: the arguments of the latest issue
    observed    \* history: per timestamp, the first coupon_payment outcome since the latest issue

vars == <<store, call, ret, issued, observed>>

NoCall == [op |-> "none", now |-> 0, freq |-> 0, repeat |-> FALSE]

NotIssued ==
    [done |-> FALSE, maturity |-> 0, coupon_rate |-> 0, par_value |-> 0,
     coupon_payment_frequency |-> 0, debenture_holder |-> 0]

NothingObserved == [t \in Times |-> [seen |-> FALSE, out |-> Ok(0)]]

\* a freshly registered contract: no key is set
Init ==
    /\ store = << >>
    /\ call = NoCall
    /\ ret = Ok(0)
    /\ issued = NotIssued
    /\ observed = NothingObserved

(* ----------------------------- operations ------------------------------ *)

\* DebentureContract::issue: five unconditional writes
issue ==
    \E m \in Maturities, r \in Rates, p \in Pars, f \in Codes, h \in Holders :
        /\ store' = set(set(set(set(set(store,
                        DataKey_Maturity, m),
                        DataKey_CouponRate, r),
                        DataKey_ParValue, p),
                        DataKey_DebentureHolder, h),
                        DataKey_CouponPaymentFrequency, f)
        /\ call' = [op |-> "issue", now |-> 0, freq |-> f, repeat |-> FALSE]
        /\ ret' = Ok(0)
        /\ issued' = [done |-> TRUE, maturity |-> m, coupon_rate |-> r, par_value |-> p,
                      coupon_payment_frequency |-> f, debenture_holder |-> h]
        /\ observed' = NothingObserved

\* DebentureContract::maturity
maturity ==
    /\ call' = [op |-> "maturity", now |-> 0, freq |-> 0, repeat |-> FALSE]
    /\ ret' = Ok(get_maturity(store))
    /\ UNCHANGED <<store, issued, observed>>

\* par_value that consumes the stored value as it reads it
par_value_consuming ==
    /\ call' = [op |-> "par_value", now |-> 0, freq |-> 0, repeat |-> FALSE]
    /\ ret' = Ok(get_par_value(store))
    /\ store' = set(store, DataKey_ParValue, 0)
    /\ UNCHANGED <<issued, observed>>

\* DebentureContract::par_value
par_value ==
    /\ call' = [op |-> "par_value", now |-> 0, freq |-> 0, repeat |-> FALSE]
    /\ ret' = Ok(get_par_value(store))
    /\ UNCHANGED <<store, issued, observed>>

\* coupon_payment that records the queried timestamp as the new maturity
coupon_payment_recording ==
    \E timestamp \in Times :
        /\ call' = [op |-> "coupon_payment", now |-> timestamp, freq |-> 0,
                    repeat |-> observed[timestamp].seen]
        /\ ret' = get_coupon_payment(store, timestamp)
        /\ observed' = IF observed[timestamp].seen THEN observed
                       ELSE [observed EXCEPT ![timestamp] =
                                [seen |-> TRUE, out |-> get_coupon_payment(store, timestamp)]]
        /\ store' = set(store, DataKey_Maturity, timestamp)
        /\ UNCHANGED issued

\* DebentureContract::coupon_payment
coupon_payment ==
    \E timestamp \in Times :
        /\ call' = [op |-> "coupon_payment", now |-> timestamp, freq |-> 0,
                    repeat |-> observed[timestamp].seen]
        /\ ret' = get_coupon_payment(store, timestamp)
        /\ observed' = IF observed[timestamp].seen THEN observed
                       ELSE [observed EXCEPT ![timestamp] =
                                [seen |-> TRUE, out |-> get_coupon_payment(store, timestamp)]]
        /\ UNCHANGED <<store, issued>>

Next == issue \/ maturity \/ par_value \/ coupon_payment

Spec == Init /\ [][Next]_vars

(* ------------------------------ properties ----------------------------- *)

\* the codes of the six CouponPaymentFrequency variants
Recognized(code) == code \in {Annually, Biannually, Quarterly, Monthly, Weekly, Daily}

\* the periods-per-year counts read as frequency codes
SpecCodes == {1, 2, 4, 12, 52, 365}

\* a code that is a variant's code or a periods-per-year count
KnownCode(code) == Recognized(code) \/ code \in SpecCodes

\* periods per year of the six variants, in declaration order
PeriodsTable == <<1, 2, 4, 12, 52, 365>>

\* C1: after any sequence of operations whose latest issue was
\* issue(m, r, p, f, h), maturity() returns exactly m and par_value() returns
\* exactly p, whatever m, p (negative included) and the frequency code are.
C1_RoundTrip ==
    issued.done =>
        /\ (call.op = "maturity" => ret = Ok(issued.maturity))
        /\ (call.op = "par_value" => ret = Ok(issued.par_value))
        /\ get_maturity(store) = issued.maturity
        /\ get_par_value(store) = issued.par_value

\* a negative maturity read back after an issue with an unrecognized code
C1_Witness ==
    /\ issued.done
    /\ call.op = "maturity"
    /\ issued.maturity < 0
    /\ ~Recognized(issued.coupon_payment_frequency)
    /\ ret = Ok(issued.maturity)

\* C2: in every reachable stored state, coupon_payment(now) with now strictly
\* greater than the stored maturity returns 0.
C2_MaturedReturnsZero ==
    (call.op = "coupon_payment" /\ call.now > get_maturity(store)) => ret = Ok(0)

\* C3: with a recognized frequency, non-negative par value and coupon rate and
\* now <= maturity (now = maturity included), coupon_payment(now) is
\* (par_value * (coupon_rate div periods)) div 100 with periods 1, 2, 4, 12,
\* 52, 365 for Annually .. Daily; rate 750, par 100000, Quarterly gives
\* 187000 and not 187500.
C3_Formula ==
    (/\ call.op = "coupon_payment"
     /\ Recognized(get_coupon_frequency(store))
     /\ get_par_value(store) >= 0
     /\ get_coupon_rate(store) >= 0
     /\ call.now <= get_maturity(store))
    =>
    LET periods == PeriodsTable[get_coupon_frequency(store) + 1]
    IN  /\ ret = Ok((get_par_value(store) * (get_coupon_rate(store) \div periods)) \div 100)
        /\ (/\ get_coupon_rate(store) = 750
            /\ get_par_value(store) = 100000
            /\ get_coupon_frequency(store) = Quarterly) => ret = Ok(187000)

\* the Quarterly example queried exactly at maturity
C3_Witness ==
    /\ call.op = "coupon_payment"
    /\ issued.done
    /\ call.now = get_maturity(store)
    /\ get_coupon_rate(store) = 750
    /\ get_par_value(store) = 100000
    /\ get_coupon_frequency(store) = Quarterly
    /\ ret = Ok(187000)

\* C4: an issue call given an unrecognized frequency code fails, so the stored
\* frequency code is always recognized or absent.
C4_IssueRejectsUnknownCode ==
    /\ (call.op = "issue" /\ ~KnownCode(call.freq)) => ~ret.ok
    /\ (DataKey_CouponPaymentFrequency \in DOMAIN store
            => KnownCode(store[DataKey_CouponPaymentFrequency]))

\* C5: while the latest issue supplied an unrecognized frequency code, every
\* coupon_payment(now), before or after maturity, fails instead of returning
\* a value.
C5_UnknownCodeFails ==
    (/\ issued.done
     /\ ~Recognized(issued.coupon_payment_frequency)
     /\ call.op = "coupon_payment") => ret = Panic

\* a failing query past maturity after issue with code 99
C5_Witness ==
    /\ issued.done
    /\ issued.coupon_payment_frequency = 99
    /\ call.op = "coupon_payment"
    /\ call.now > get_maturity(store)
    /\ ret = Panic

\* C6: before any issue, maturity() and par_value() return 0 and
\* coupon_payment(now) returns 0 for every now >= 0.
C6_Defaults ==
    ~issued.done =>
        /\ (call.op = "maturity" => ret = Ok(0))
        /\ (call.op = "par_value" => ret = Ok(0))
        /\ ((call.op = "coupon_payment" /\ call.now >= 0) => ret = Ok(0))

\* coupon_payment(0) on the empty store: the formula path with all defaults
C6_Witness ==
    /\ ~issued.done
    /\ store = << >>
    /\ call.op = "coupon_payment"
    /\ call.now = 0
    /\ ret = Ok(0)

\* C7: maturity, par_value and coupon_payment leave all five stored fields
\* unchanged, whether they return or fail; only issue writes.
C7_ReadsDoNotWrite ==
    [][call'.op # "issue" => store' = store]_vars

\* a failed coupon_payment on a fully populated store
C7_Witness ==
    /\ call.op = "coupon_payment"
    /\ ret = Panic
    /\ DOMAIN store = {DataKey_Maturity, DataKey_CouponRate, DataKey_ParValue,
                       DataKey_DebentureHolder, DataKey_CouponPaymentFrequency}
    /\ store[DataKey_Maturity] = issued.maturity
    /\ store[DataKey_CouponRate] = issued.coupon_rate
    /\ store[DataKey_ParValue] = issued.par_value
    /\ store[DataKey_DebentureHolder] = issued.debenture_holder
    /\ store[DataKey_CouponPaymentFrequency] = issued.coupon_payment_frequency

\* C8: a coupon_payment(now) call has the same outcome (value or failure) as
\* the first coupon_payment(now) made since the latest issue, whatever
\* maturity, par_value or coupon_payment calls came between.
C8_Pure ==
    call.op = "coupon_payment" =>
        /\ observed[call.now].seen
        /\ ret = observed[call.now].out

\* a repeated query with a non-zero result
C8_Witness ==
    /\ call.op = "coupon_payment"
    /\ call.repeat
    /\ ret.ok
    /\ ret.val # 0
    /\ ret = observed[call.now].out

\* C9 as stated: with maturity after now, coupon_rate 750, par_value 100000
\* and frequency Annually, coupon_payment(now) returns 750.
C9_Original ==
    (/\ issued.done
     /\ issued.coupon_rate = 750
     /\ issued.par_value = 100000
     /\ issued.coupon_payment_frequency = Annually
     /\ call.op = "coupon_payment"
     /\ call.now < issued.maturity) => ret = Ok(750)

\* C9 amended: with maturity after now, coupon_rate 750, par_value 100000 and
\* frequency Annually, coupon_payment(now) returns 750000.
C9_Amended ==
    (/\ issued.done
     /\ issued.coupon_rate = 750
     /\ issued.par_value = 100000
     /\ issued.coupon_payment_frequency = Annually
     /\ call.op = "coupon_payment"
     /\ call.now < issued.maturity) => ret = Ok(750000)

C9_Witness ==
    /\ issued.done
    /\ issued.coupon_rate = 750
    /\ issued.par_value = 100000
    /\ issued.coupon_payment_frequency = Annually
    /\ call.op = "coupon_payment"
    /\ call.now < issued.maturity
    /\ ret = Ok(750000)

\* C10 as stated: the code given to issue is the periods-per-year count, so
\* coupon_payment(now) with now <= maturity succeeds exactly for the codes
\* 1, 2, 4, 12, 52, 365 and divides coupon_rate by the code.
C10_Original ==
    (/\ issued.done
     /\ call.op = "coupon_payment"
     /\ call.now <= issued.maturity)
    =>
    /\ ret.ok <=> issued.coupon_payment_frequency \in SpecCodes
    /\ ret.ok => ret.val = TruncDiv(issued.par_value
                    * TruncDiv(issued.coupon_rate, issued.coupon_payment_frequency), 100)

\* C10 amended: the code given to issue is the variant's ordinal, 0 .. 5 for
\* Annually .. Daily; coupon_payment(now) with now <= maturity succeeds
\* exactly for the codes 0 .. 5 and divides coupon_rate by the periods-per-year
\* count 1, 2, 4, 12, 52, 365 of that variant; every other code fails.
C10_Amended ==
    (/\ issued.done
     /\ call.op = "coupon_payment"
     /\ call.now <= issued.maturity)
    =>
    /\ ret.ok <=> issued.coupon_payment_frequency \in 0..5
    /\ ret.ok => ret.val = TruncDiv(issued.par_value
                    * TruncDiv(issued.coupon_rate,
                               PeriodsTable[issued.coupon_payment_frequency + 1]), 100)
    /\ ~ret.ok => ret = Panic

\* code 4 divides the rate by 52: 750 / 52 = 14, 100000 * 14 / 100 = 14000
C10_Witness ==
    /\ issued.done
    /\ call.op = "coupon_payment"
    /\ call.now <= issued.maturity
    /\ issued.coupon_payment_frequency = 4
    /\ issued.coupon_rate = 750
    /\ issued.par_value = 100000
    /\ ret = Ok(14000)

====
